---- MODULE Spec2Model ----
(***************************************************************************)
(* Model of src/server.js: an Express backend that authenticates callers   *)
(* against Supabase and relays to Stripe, Gemini and a remote MMM API.     *)
(* Every `await` of a handler is a suspend point: one action of the model  *)
(* resolves one awaited call and runs the handler up to its next await.    *)
(***************************************************************************)
EXTENDS Naturals, Sequences, FiniteSets

\* ---------------------------------------------------------------- bounds
\* Number of requests served in one behaviour of Spec (one slot each).
MaxReqs == 1
\* Number of requests served in one behaviour of SpecConcurrent.
MaxConcurrent == 2
\* Number of customers the payments provider will hold (one exists at start).
MaxCustomers == 3
\* Number of environment variables that may be unset at process start.
MaxMissing == 1

\* ------------------------------------------------------------ environment
\* process.env names read by server.js
EnvVars == {"STRIPE_SECRET_KEY", "SUPABASE_URL", "SUPABASE_SERVICE_ROLE_KEY",
            "API_KEY", "MMM_API_KEY", "STRIPE_PRICE_ID", "APP_URL",
            "STRIPE_WEBHOOK_SECRET", "PORT"}

\* The variables the start-up guard of server.js tests (line 35).
CheckedEnv == {"STRIPE_SECRET_KEY", "SUPABASE_URL", "SUPABASE_SERVICE_ROLE_KEY",
               "API_KEY", "MMM_API_KEY", "STRIPE_PRICE_ID", "APP_URL"}

\* const PORT = process.env.PORT || 3001
DefaultPort == 3001
EnvPort == 8080
PORT(e) == IF "PORT" \in e THEN EnvPort ELSE DefaultPort

\* ---------------------------------------------------------------- values
\* JavaScript null / undefined
Null == "null"
\* Customer ids are positive numbers; 0 stands for a null stripe_customer_id.
NoCustomer == 0

Users == {"u1", "u2", "u3"}

\* The identity provider's token table: the user a bearer token resolves to,
\* Null when supabase.auth.getUser answers with an error.
TokenUser(t) ==
  CASE t = "t1" -> "u1"
    [] t = "t2" -> "u2"
    [] t = "t3" -> "u3"
    [] OTHER -> Null

\* An Authorization header as the words between its spaces; <<>> is no header.
AuthHeaders == { <<>>, <<"Basic", "t1">>, <<"Bearer", "bad">>,
                 <<"Bearer", "t1">>, <<"Bearer", "t2">>, <<"Bearer", "t3">> }

\* authHeader && authHeader.startsWith('Bearer ')
HasBearer(h) == Len(h) >= 2 /\ h[1] = "Bearer"

\* authHeader.split(' ')[1]
AccessToken(h) == h[2]

\* ------------------------------------------------------------ data store
\* A row of table user_profiles (its id is the key of the table).
Row(email, cust, sub, status) ==
  [email |-> email, stripe_customer_id |-> cust,
   subscription_id |-> sub, subscription_status |-> status]

\* The table at process start: u1 never checked out, u2 is a customer of the
\* payments provider (customer 1), u3 has no row.
InitialProfiles ==
  [u \in {"u1", "u2"} |->
     IF u = "u1" THEN Row("u1@mail", NoCustomer, Null, Null)
                 ELSE Row("u2@mail", 1, Null, Null)]

\* ---------------------------------------------------------------- events
Event(type, mode, customer, subscription, status) ==
  [type |-> type, mode |-> mode, customer |-> customer,
   subscription |-> subscription, status |-> status]

\* Bodies a webhook request may carry (event.type and event.data.object).
Events ==
  { Event("checkout.session.completed", "subscription", 1, "sub_A", Null),
    Event("checkout.session.completed", "payment", 1, Null, Null),
    Event("checkout.session.completed", "subscription", 2, "sub_B", Null),
    Event("customer.subscription.updated", Null, 1, "sub_A", "active"),
    Event("customer.subscription.deleted", Null, 1, "sub_A", "canceled"),
    Event("customer.subscription.deleted", Null, 2, "sub_B", "canceled"),
    Event("invoice.paid", Null, 1, "sub_A", "paid") }

NoEvent == Event(Null, Null, NoCustomer, Null, Null)

\* A stripe-signature header: the key it was computed with and the payload
\* it was computed over. NoSig is a request without the header.
Sig(key, payload) == [key |-> key, payload |-> payload]
NoSig == Sig(Null, NoEvent)

\* The signing secret the payments provider holds for this endpoint.
ProviderSecret == "whsec"

\* process.env.STRIPE_WEBHOOK_SECRET
WebhookSecret(e) == IF "STRIPE_WEBHOOK_SECRET" \in e THEN ProviderSecret ELSE Null

\* Signature headers a request carrying body b may present: the provider's,
\* one made with another key, the provider's for another payload, none.
SigsFor(b) ==
  { Sig(ProviderSecret, b), Sig("attacker", b), NoSig } \cup
  { Sig(ProviderSecret, Event("invoice.paid", Null, 1, "sub_A", "paid")) }

\* A faulty ConstructEventOk: the signature's key is checked, not the
\* payload it was computed over.
ConstructEventKeyOnly(body, sig, secret) ==
  /\ secret # Null
  /\ sig.key = secret

\* stripe.webhooks.constructEvent(body, sig, secret) returns the event when
\* the header was computed over this body with this secret, and throws otherwise.
ConstructEventOk(body, sig, secret) ==
  /\ secret # Null
  /\ sig.key = secret
  /\ sig.payload = body

\* --------------------------------------------------------------- requests
Request(route, auth, userId, customerId, sig, event, prompt, model) ==
  [route |-> route, auth |-> auth, userId |-> userId, customerId |-> customerId,
   sig |-> sig, event |-> event, prompt |-> prompt, model |-> model]

NoRequest == Request(Null, <<>>, Null, NoCustomer, NoSig, NoEvent, FALSE, FALSE)

\* { userId } of create-checkout-session
CheckoutRequests ==
  { Request("checkout", h, u, NoCustomer, NoSig, NoEvent, FALSE, FALSE) :
      h \in AuthHeaders, u \in Users \cup {Null} }

\* create-portal-session reads nothing of its body; a client may still send
\* a customer id in it.
PortalRequests ==
  { Request("portal", h, Null, c, NoSig, NoEvent, FALSE, FALSE) :
      h \in AuthHeaders, c \in {NoCustomer, 2} }

WebhookRequests ==
  UNION { { Request("webhook", <<>>, Null, NoCustomer, s, b, FALSE, FALSE) :
              s \in SigsFor(b) } : b \in Events }

\* { prompt, model, config } of the Gemini proxy: which fields are present
GeminiRequests ==
  { Request("gemini", h, Null, NoCustomer, NoSig, NoEvent, pm[1], pm[2]) :
      h \in AuthHeaders, pm \in { <<TRUE, TRUE>>, <<TRUE, FALSE>>, <<FALSE, TRUE>> } }

MmmRequests ==
  { Request("mmm", h, Null, NoCustomer, NoSig, NoEvent, FALSE, FALSE) :
      h \in AuthHeaders }

\* A call a handler has issued to a collaborator, with the customer id it names.
Call(op, customer) == [op |-> op, customer |-> customer]

\* res.status(..).json(..) / .send(..); status 0: nothing sent yet
Response(status, body) == [status |-> status, body |-> body]
NoResponse == Response(0, Null)

\* ------------------------------------------------------------------ state
VARIABLES
  env,              \* the names set in process.env
  proc,             \* "starting", "listening" or "exited"
  port,             \* the port app.listen was given (0 before it)
  user_profiles,    \* table user_profiles of the data store
  customers,        \* the payments provider's customers: owner of customer i
  req,              \* req[r]: the request in slot r
  pc,               \* pc[r]: the await the handler of r is suspended at
  user,             \* user[r]: local `user` of the handler
  profile,          \* profile[r]: local `profile` (<<>> before the read)
  stripeCustomerId, \* stripeCustomerId[r]: local of create-checkout-session
  res,              \* res[r]: the response sent
  calls,            \* calls[r]: the calls the handler issued, in order
  after,            \* after[r]: the requests answered before r arrived
  storeError,       \* storeError[r]: the store answered an update of r with { error }
  mmmResponse       \* mmmResponse[r]: local `mmmResponse` (status and body text)

vars == <<env, proc, port, user_profiles, customers, req, pc, user, profile,
          stripeCustomerId, res, calls, after, storeError, mmmResponse>>

server == <<env, proc, port>>

\* The request slots of the behaviour
Reqs == DOMAIN pc

\* The state when the process is launched, with n requests to come.
InitWith(n) ==
  /\ env \in { EnvVars \ m : m \in { s \in SUBSET EnvVars : Cardinality(s) <= MaxMissing } }
  /\ proc = "starting"
  /\ port = 0
  /\ user_profiles = InitialProfiles
  /\ customers = <<"u2">>
  /\ req = [r \in 1..n |-> NoRequest]
  /\ pc = [r \in 1..n |-> "idle"]
  /\ user = [r \in 1..n |-> Null]
  /\ profile = [r \in 1..n |-> <<>>]
  /\ stripeCustomerId = [r \in 1..n |-> NoCustomer]
  /\ res = [r \in 1..n |-> NoResponse]
  /\ calls = [r \in 1..n |-> <<>>]
  /\ after = [r \in 1..n |-> {}]
  /\ storeError = [r \in 1..n |-> FALSE]
  /\ mmmResponse = [r \in 1..n |-> NoResponse]

Init == InitWith(MaxReqs)

InitConcurrent == InitWith(MaxConcurrent)

\* ---------------------------------------------------------------- startup
\* The guard of CLIENT INITIALIZATION: true when the process goes on.
EnvComplete(e) == CheckedEnv \subseteq e

\* Module load: the guard, then app.listen.
Startup ==
  /\ proc = "starting"
  /\ IF EnvComplete(env)
       THEN proc' = "listening" /\ port' = PORT(env)
       ELSE proc' = "exited" /\ port' = port
  /\ UNCHANGED <<env, user_profiles, customers, req, pc, user, profile,
                 stripeCustomerId, res, calls, after, storeError, mmmResponse>>

\* ------------------------------------------------- per-request bookkeeping
\* What one step of a handler leaves behind: where it suspends (or "done"),
\* the response it has sent and the calls it has issued.
Step(pcv, resv, callsv) == [pc |-> pcv, res |-> resv, calls |-> callsv]

Finish(resv, callsv) == Step("done", resv, callsv)

Commit(r, n) ==
  /\ pc' = [pc EXCEPT ![r] = n.pc]
  /\ res' = [res EXCEPT ![r] = n.res]
  /\ calls' = [calls EXCEPT ![r] = n.calls]

Done(r) == pc[r] = "done"

\* ------------------------------------------------------- getSupabaseUser
\* A faulty GetUserError: the error of getUser is not read.
GetUserErrorIgnored(t) == FALSE

\* `error` of supabase.auth.getUser(accessToken)
GetUserError(t) == TokenUser(t) = Null

\* A faulty CheckoutRejects: only a missing user is rejected.
CheckoutRejectsNoUserOnly(usr, userId) == usr = Null

\* if (!user || user.id !== userId) of create-checkout-session
CheckoutRejects(usr, userId) == usr = Null \/ usr # userId

\* if (!prompt || !model) of the Gemini proxy
MissingFields(q) == ~q.prompt \/ ~q.model

\* The handler of request q from the return of getSupabaseUser (usr: its
\* result, sent: the response it has sent, c: the calls issued so far, e: the
\* environment) to its next await.
AfterAuth(q, usr, sent, c, e) ==
  CASE q.route = "checkout" ->
         IF CheckoutRejects(usr, q.userId)
           THEN Finish(IF sent = NoResponse
                         THEN Response(403, "User token does not match requested user ID.")
                         ELSE sent, c)
           ELSE Step("select", sent, Append(c, Call("user_profiles.select", NoCustomer)))
    [] q.route = "portal" ->
         IF usr = Null
           THEN Finish(sent, c)
           ELSE Step("select", sent, Append(c, Call("user_profiles.select", NoCustomer)))
    [] q.route = "gemini" ->
         IF usr = Null
           THEN Finish(sent, c)
           ELSE IF MissingFields(q)
             THEN Finish(Response(400, "Missing required fields: prompt and model."), c)
             ELSE Step("generateContent", sent, Append(c, Call("ai.models.generateContent", NoCustomer)))
    [] OTHER ->
         IF usr = Null
           THEN Finish(sent, c)
           ELSE IF "MMM_API_KEY" \notin e
             THEN Finish(Response(500, "MMM API key is not configured on the server."), c)
             ELSE Step("fetch", sent, Append(c, Call("fetch", NoCustomer)))

\* The requests already answered when one arrives.
Answered == { q \in Reqs : Done(q) }

\* A request of an authenticated route arrives in slot r: the handler runs
\* getSupabaseUser up to supabase.auth.getUser, or to its 401 when the header
\* is missing or malformed, and then on as AfterAuth says.
Arrive(r, q) ==
  /\ proc = "listening"
  /\ pc[r] = "idle"
  /\ \A p \in Reqs : p < r => pc[p] # "idle"
  /\ req' = [req EXCEPT ![r] = q]
  /\ after' = [after EXCEPT ![r] = Answered]
  /\ IF HasBearer(q.auth)
       THEN Commit(r, Step("getUser", NoResponse,
                           <<Call("auth.getUser", NoCustomer)>>))
       ELSE Commit(r, AfterAuth(q, Null,
                                Response(401, "Missing or invalid Authorization header"),
                                <<>>, env))
  /\ UNCHANGED <<server, user_profiles, customers, user, profile, stripeCustomerId, storeError, mmmResponse>>

PostCheckout == \E r \in Reqs : \E q \in CheckoutRequests : Arrive(r, q)
PostPortal == \E r \in Reqs : \E q \in PortalRequests : Arrive(r, q)
PostGemini == \E r \in Reqs : \E q \in GeminiRequests : Arrive(r, q)
PostMmm == \E r \in Reqs : \E q \in MmmRequests : Arrive(r, q)

\* supabase.auth.getUser resolves: getSupabaseUser answers 401 and returns
\* null on an error, returns the user otherwise; the handler goes on.
GetUserReturns ==
  \E r \in Reqs :
    /\ pc[r] = "getUser"
    /\ LET t == AccessToken(req[r].auth)
           failed == GetUserError(t)
           usr == IF failed THEN Null ELSE TokenUser(t)
           sent == IF failed THEN Response(401, "Invalid access token") ELSE NoResponse
       IN /\ user' = [user EXCEPT ![r] = usr]
          /\ Commit(r, AfterAuth(req[r], usr, sent, calls[r], env))
    /\ UNCHANGED <<server, user_profiles, customers, req, profile, stripeCustomerId, after,
                   storeError, mmmResponse>>

\* ---------------------------------------------------------- data store
\* .select(cols).eq('id', id).single(): the row's columns, or null data (with
\* an error) when the store fails or no row has that id.
SelectSingle(table, id, cols, ok) ==
  IF ok /\ id \in DOMAIN table
    THEN << [c \in cols |-> table[id][c]] >>
    ELSE <<>>

\* .update({ stripe_customer_id }).eq('id', id)
UpdateCustomerId(table, id, cust) ==
  [u \in DOMAIN table |->
     IF u = id THEN [table[u] EXCEPT !.stripe_customer_id = cust] ELSE table[u]]

\* The switch of the webhook handler: does this event update the table?
Dispatches(event) ==
  \/ event.type = "checkout.session.completed" /\ event.mode = "subscription"
  \/ event.type \in {"customer.subscription.updated", "customer.subscription.deleted"}

\* A faulty Patched: every projected event also sets subscription_id.
PatchedWithSubscription(row, event) ==
  [row EXCEPT !.subscription_id = event.subscription,
              !.subscription_status =
                 IF event.type = "checkout.session.completed"
                   THEN "trialing" ELSE event.status]

\* The columns the webhook's update sets in a row it matches.
Patched(row, event) ==
  IF event.type = "checkout.session.completed"
    THEN [row EXCEPT !.subscription_id = event.subscription,
                     !.subscription_status = "trialing"]
    ELSE [row EXCEPT !.subscription_status = event.status]

\* A faulty Matches: the update carries no filter.
MatchesEveryRow(row, customerId) == TRUE

\* Does .eq('stripe_customer_id', customerId) select this row?
Matches(row, customerId) == row.stripe_customer_id = customerId

\* .update(..).eq('stripe_customer_id', customerId) of the webhook handler
UpdateWhereCustomer(table, event) ==
  [u \in DOMAIN table |->
     IF Matches(table[u], event.customer) THEN Patched(table[u], event) ELSE table[u]]

\* ------------------------------------------------ create-checkout-session
\* From the profile read to the next await.
CheckoutAfterSelect(data, c) ==
  IF data = <<>>
    THEN Finish(Response(404, "User profile not found."), c)
    ELSE IF data[1].stripe_customer_id = NoCustomer
      THEN Step("customersCreate", NoResponse,
                Append(c, Call("stripe.customers.create", NoCustomer)))
      ELSE Step("sessionsCreate", NoResponse,
                Append(c, Call("stripe.checkout.sessions.create",
                               data[1].stripe_customer_id)))

\* The profile read of create-checkout-session resolves.
CheckoutSelectReturns ==
  \E r \in Reqs :
    /\ pc[r] = "select"
    /\ req[r].route = "checkout"
    /\ \E ok \in BOOLEAN :
         LET data == SelectSingle(user_profiles, req[r].userId,
                                  {"stripe_customer_id", "email"}, ok)
         IN /\ profile' = [profile EXCEPT ![r] = data]
            /\ stripeCustomerId' =
                 [stripeCustomerId EXCEPT ![r] =
                    IF data = <<>> THEN NoCustomer ELSE data[1].stripe_customer_id]
            /\ Commit(r, CheckoutAfterSelect(data, calls[r]))
    /\ UNCHANGED <<server, user_profiles, customers, req, user, after, storeError, mmmResponse>>

\* stripe.customers.create resolves with a new customer, and the handler
\* issues the profile update.
CustomersCreateReturns ==
  \E r \in Reqs :
    /\ pc[r] = "customersCreate"
    /\ Len(customers) < MaxCustomers
    /\ customers' = Append(customers, req[r].userId)
    /\ stripeCustomerId' = [stripeCustomerId EXCEPT ![r] = Len(customers) + 1]
    /\ Commit(r, Step("update", NoResponse,
                      Append(calls[r], Call("user_profiles.update", Len(customers) + 1))))
    /\ UNCHANGED <<server, user_profiles, req, user, profile, after, storeError, mmmResponse>>

\* The profile update of line 88 resolves: the store applied it, or it
\* answered { error }, which the handler does not read; the handler asks for
\* the checkout session.
CheckoutUpdateReturns ==
  \E r \in Reqs :
    /\ pc[r] = "update"
    /\ req[r].route = "checkout"
    /\ \E ok \in BOOLEAN :
         /\ user_profiles' = IF ok THEN UpdateCustomerId(user_profiles, req[r].userId,
                                                         stripeCustomerId[r])
                                   ELSE user_profiles
         /\ storeError' = [storeError EXCEPT ![r] = ~ok]
    /\ Commit(r, Step("sessionsCreate", NoResponse,
                      Append(calls[r], Call("stripe.checkout.sessions.create",
                                            stripeCustomerId[r]))))
    /\ UNCHANGED <<server, customers, req, user, profile, stripeCustomerId, after,
                   mmmResponse>>

\* stripe.checkout.sessions.create resolves.
SessionsCreateReturns ==
  \E r \in Reqs :
    /\ pc[r] = "sessionsCreate"
    /\ Commit(r, Finish(Response(200, "sessionId"), calls[r]))
    /\ UNCHANGED <<server, user_profiles, customers, req, user, profile,
                   stripeCustomerId, after, storeError, mmmResponse>>

\* A call of the payments provider inside a try block throws: the catch
\* answers 500 with the error's message.
StripeThrows ==
  \E r \in Reqs :
    /\ pc[r] \in {"customersCreate", "sessionsCreate", "portalCreate"}
    /\ Commit(r, Finish(Response(500, "err.message"), calls[r]))
    /\ UNCHANGED <<server, user_profiles, customers, req, user, profile,
                   stripeCustomerId, after, storeError, mmmResponse>>

\* -------------------------------------------------- create-portal-session
\* if (profileError || !profile || !profile.stripe_customer_id)
PortalNotFound(data) == data = <<>> \/ data[1].stripe_customer_id = NoCustomer

\* A faulty PortalCustomer: the customer id is taken from the request body.
PortalCustomerFromBody(data, q) == q.customerId

\* customer: of stripe.billingPortal.sessions.create, for request q
PortalCustomer(data, q) == data[1].stripe_customer_id

PortalAfterSelect(data, q, c) ==
  IF PortalNotFound(data)
    THEN Finish(Response(404, "Stripe customer ID not found for user."), c)
    ELSE Step("portalCreate", NoResponse,
              Append(c, Call("stripe.billingPortal.sessions.create",
                             PortalCustomer(data, q))))

\* The profile read of create-portal-session resolves.
PortalSelectReturns ==
  \E r \in Reqs :
    /\ pc[r] = "select"
    /\ req[r].route = "portal"
    /\ \E ok \in BOOLEAN :
         LET data == SelectSingle(user_profiles, user[r], {"stripe_customer_id"}, ok)
         IN /\ profile' = [profile EXCEPT ![r] = data]
            /\ Commit(r, PortalAfterSelect(data, req[r], calls[r]))
    /\ UNCHANGED <<server, user_profiles, customers, req, user, stripeCustomerId, after,
                   storeError, mmmResponse>>

\* stripe.billingPortal.sessions.create resolves.
PortalCreateReturns ==
  \E r \in Reqs :
    /\ pc[r] = "portalCreate"
    /\ Commit(r, Finish(Response(200, "url"), calls[r]))
    /\ UNCHANGED <<server, user_profiles, customers, req, user, profile,
                   stripeCustomerId, after, storeError, mmmResponse>>

\* ---------------------------------------------------------------- webhook
\* The handler from its start to its first await.
WebhookStart(q, e) ==
  IF ~ConstructEventOk(q.event, q.sig, WebhookSecret(e))
    THEN Finish(Response(400, "Webhook Error"), <<>>)
    ELSE IF Dispatches(q.event)
      THEN Step("webhookUpdate", NoResponse,
                <<Call("user_profiles.update", q.event.customer)>>)
      ELSE Finish(Response(200, "received"), <<>>)

PostWebhook ==
  \E r \in Reqs :
    /\ proc = "listening"
    /\ pc[r] = "idle"
    /\ \A p \in Reqs : p < r => pc[p] # "idle"
    /\ \E q \in WebhookRequests :
         /\ req' = [req EXCEPT ![r] = q]
         /\ Commit(r, WebhookStart(q, env))
    /\ after' = [after EXCEPT ![r] = Answered]
    /\ UNCHANGED <<server, user_profiles, customers, user, profile, stripeCustomerId, storeError, mmmResponse>>

\* The update of the webhook handler resolves: the store applied it, or it
\* answered { error } (a supabase-js query resolves with its error, it does
\* not reject), which the handler does not read; res.json follows.
WebhookUpdateReturns ==
  \E r \in Reqs :
    /\ pc[r] = "webhookUpdate"
    /\ \E ok \in BOOLEAN :
         /\ user_profiles' = IF ok THEN UpdateWhereCustomer(user_profiles, req[r].event)
                                   ELSE user_profiles
         /\ storeError' = [storeError EXCEPT ![r] = ~ok]
    /\ Commit(r, Finish(Response(200, "received"), calls[r]))
    /\ UNCHANGED <<server, customers, req, user, profile, stripeCustomerId, after,
                   mmmResponse>>

\* ----------------------------------------------------------- Gemini proxy
GenerateReturns ==
  \E r \in Reqs :
    /\ pc[r] = "generateContent"
    /\ \E ok \in BOOLEAN :
         Commit(r, Finish(IF ok THEN Response(200, "response.text")
                                ELSE Response(500, "Failed to get response from AI model."),
                          calls[r]))
    /\ UNCHANGED <<server, user_profiles, customers, req, user, profile,
                   stripeCustomerId, after, storeError, mmmResponse>>

\* -------------------------------------------------------------- MMM proxy
\* A number as a JSON text writes it: hi * 2^53 + lo, with lo below 2^53.
Num(hi, lo) == [hi |-> hi, lo |-> lo]

\* A JSON document of one member: its key, its number as written, and
\* whether the text carries insignificant whitespace.
Doc(key, num, ws) == [key |-> key, num |-> num, ws |-> ws]

\* The body texts of the model that are JSON.
JsonTexts ==
  { "{\"roi\":2}", "{ \"roi\": 2 }", "{\"retry_after\":30}",
    "{\"error\":500}", "{\"id\":9007199254740993}", "{\"id\":9007199254740992}" }

\* The document a text spells: <<>> when the text is not JSON.
Lex(text) ==
  CASE text = "{\"roi\":2}" -> << Doc("roi", Num(0, 2), FALSE) >>
    [] text = "{ \"roi\": 2 }" -> << Doc("roi", Num(0, 2), TRUE) >>
    [] text = "{\"retry_after\":30}" -> << Doc("retry_after", Num(0, 30), FALSE) >>
    [] text = "{\"error\":500}" -> << Doc("error", Num(0, 500), FALSE) >>
    [] text = "{\"id\":9007199254740993}" -> << Doc("id", Num(1, 1), FALSE) >>
    [] text = "{\"id\":9007199254740992}" -> << Doc("id", Num(1, 0), FALSE) >>
    [] OTHER -> <<>>

\* The text that spells a document.
Spell(doc) == CHOOSE t \in JsonTexts : Lex(t) = << doc >>

\* The JavaScript number (an IEEE double) of a number as written: integers
\* up to 2^53 are exact; between 2^53 and 2^54 the doubles are the even
\* integers, and a tie goes to the one with an even mantissa.
ToDouble(num) ==
  IF num.hi = 0 \/ num.lo % 2 = 0
    THEN num
    ELSE IF (num.lo + 1) % 4 = 0 THEN Num(num.hi, num.lo + 1)
                                 ELSE Num(num.hi, num.lo - 1)

\* await mmmResponse.json(): <<>> when it throws, else the parsed value, which
\* keeps the member's key and the double of its number.
JsonParse(text) ==
  IF Lex(text) = <<>>
    THEN <<>>
    ELSE << [key |-> Lex(text)[1].key, num |-> ToDouble(Lex(text)[1].num)] >>

\* JSON.stringify of res.json(value): the text without whitespace
JsonStringify(value) == Spell(Doc(value.key, value.num, FALSE))

\* What the remote endpoint may answer: a status and a body text (JSON, an
\* HTML error page, an empty body).
UpstreamResponses ==
  { Response(200, "{\"roi\":2}"), Response(200, "{ \"roi\": 2 }"),
    Response(200, "{\"id\":9007199254740993}"),
    Response(429, "{\"retry_after\":30}"), Response(500, "{\"error\":500}"),
    Response(502, "<html>502 Bad Gateway</html>"), Response(204, "") }

\* The catch block of the proxy
ProxyFailure == Response(500, "Failed to proxy request to MMM service.")

\* const responseData = await mmmResponse.json();
\* return res.status(mmmResponse.status).json(responseData);
Relay(up) ==
  IF JsonParse(up.body) = <<>>
    THEN ProxyFailure
    ELSE Response(up.status, JsonStringify(JsonParse(up.body)[1]))

\* fetch resolves with a response, whose body is then read, or it rejects.
FetchReturns ==
  \E r \in Reqs :
    /\ pc[r] = "fetch"
    /\ \/ \E up \in UpstreamResponses :
            /\ mmmResponse' = [mmmResponse EXCEPT ![r] = up]
            /\ Commit(r, Finish(Relay(up), calls[r]))
       \/ /\ mmmResponse' = mmmResponse
          /\ Commit(r, Finish(ProxyFailure, calls[r]))
    /\ UNCHANGED <<server, user_profiles, customers, req, user, profile,
                   stripeCustomerId, after, storeError>>

\* ---------------------------------------------------------- specification
Next ==
  \/ Startup
  \/ PostCheckout
  \/ PostPortal
  \/ PostWebhook
  \/ PostGemini
  \/ PostMmm
  \/ GetUserReturns
  \/ CheckoutSelectReturns
  \/ CustomersCreateReturns
  \/ CheckoutUpdateReturns
  \/ SessionsCreateReturns
  \/ StripeThrows
  \/ PortalSelectReturns
  \/ PortalCreateReturns
  \/ WebhookUpdateReturns
  \/ GenerateReturns
  \/ FetchReturns

Spec == Init /\ [][Next]_vars

\* The same program serving requests that overlap.
SpecConcurrent == InitConcurrent /\ [][Next]_vars

\* ----------------------------------------------------------------- claims
\* The operations a handler has issued so far.
Ops(r) == { calls[r][i].op : i \in 1..Len(calls[r]) }

\* How many of the calls in sequence c are of operation op.
RECURSIVE CountOp(_, _)
CountOp(c, op) ==
  IF c = <<>> THEN 0
  ELSE (IF Head(c).op = op THEN 1 ELSE 0) + CountOp(Tail(c), op)

\* Profile reads and writes, payments, generation and analytics calls.
UpstreamOps ==
  { "user_profiles.select", "user_profiles.update", "stripe.customers.create",
    "stripe.checkout.sessions.create", "stripe.billingPortal.sessions.create",
    "ai.models.generateContent", "fetch" }

AuthenticatedRoutes == {"checkout", "portal", "gemini", "mmm"}

\* The header is absent or is not 'Bearer <token>'.
NoBearerToken(h) == h = <<>> \/ Len(h) < 2 \/ h[1] # "Bearer"

\* The request carries no credential that resolves to a user.
BadCredential(q) == NoBearerToken(q.auth) \/ TokenUser(q.auth[2]) = Null

\* The principal of a request that carries a valid credential.
Principal(q) == TokenUser(q.auth[2])

\* C1: on the four authenticated routes, a request whose Authorization
\* header is absent, is not 'Bearer <token>' or carries a token the identity
\* provider does not resolve is answered 401 once answered (at once when the
\* header is absent or malformed), is never suspended anywhere but at the
\* token check, and issues no profile read or write and no payments,
\* generation or analytics call.
C1_Unauthenticated401 ==
  \A r \in Reqs :
    (req[r].route \in AuthenticatedRoutes /\ BadCredential(req[r])) =>
      /\ Ops(r) \cap UpstreamOps = {}
      /\ pc[r] \in {"getUser", "done"}
      /\ NoBearerToken(req[r].auth) => Done(r) /\ calls[r] = <<>>
      /\ Done(r) => res[r].status = 401

C1_Witness ==
  \E r \in Reqs :
    /\ req[r].route = "portal"
    /\ req[r].auth = <<"Bearer", "bad">>
    /\ Done(r)
    /\ res[r].status = 401

\* The signature header is not the provider's signature of the request's
\* body under the secret the server is configured with.
InvalidSignature(q, e) ==
  \/ q.sig # Sig(ProviderSecret, q.event)
  \/ "STRIPE_WEBHOOK_SECRET" \notin e

\* C2: the handling of a webhook request whose signature verification fails
\* is one step that answers 400, issues no profile update and leaves table
\* user_profiles as it was, whatever event the body declares.
C2_InvalidSignature400 ==
  [][\A r \in Reqs :
       (/\ pc[r] = "idle"
        /\ pc'[r] # "idle"
        /\ req'[r].route = "webhook"
        /\ InvalidSignature(req'[r], env)) =>
         /\ pc'[r] = "done"
         /\ res'[r].status = 400
         /\ calls'[r] = <<>>
         /\ user_profiles' = user_profiles]_vars

C2_Witness ==
  \E r \in Reqs :
    /\ req[r].route = "webhook"
    /\ req[r].event.type = "customer.subscription.deleted"
    /\ req[r].event.customer = 1
    /\ req[r].sig = Sig("attacker", req[r].event)
    /\ res[r].status = 400
    /\ user_profiles = InitialProfiles

\* C6: create-checkout-session with a credential that resolves to a user
\* other than the body's userId (a missing userId included) is answered 403
\* once answered and issues no profile read or write and no payments call.
C6_Mismatch403 ==
  \A r \in Reqs :
    (/\ req[r].route = "checkout"
     /\ ~BadCredential(req[r])
     /\ Principal(req[r]) # req[r].userId) =>
      /\ Ops(r) \cap UpstreamOps = {}
      /\ pc[r] \in {"getUser", "done"}
      /\ Done(r) => res[r].status = 403

C6_Witness ==
  \E r \in Reqs :
    /\ req[r].route = "checkout"
    /\ req[r].auth = <<"Bearer", "t1">>
    /\ req[r].userId \in {"u2", Null}
    /\ Done(r)
    /\ res[r].status = 403

\* The configuration values that must be present at start-up.
RequiredEnv == EnvVars \ {"PORT"}

\* C7: the process reaches the listening state only with every required
\* configuration value present; the port alone may be absent and is then 3001.
C7_ListeningOnlyIfConfigured ==
  proc = "listening" =>
    /\ RequiredEnv \subseteq env
    /\ "PORT" \notin env => port = DefaultPort

\* The webhook events whose handling updates table user_profiles.
ProjectedEvent(ev) ==
  \/ ev.type = "checkout.session.completed" /\ ev.mode = "subscription"
  \/ ev.type = "customer.subscription.updated"
  \/ ev.type = "customer.subscription.deleted"

StatusEvent(ev) ==
  ev.type \in {"customer.subscription.updated", "customer.subscription.deleted"}

\* C5: a signature-verified webhook whose profile update the data store
\* answered with an error is answered 500, never 200, and attempted the update
\* exactly once.
C5_StoreErrorIs500 ==
  \A r \in Reqs :
    (req[r].route = "webhook" /\ Done(r) /\ storeError[r]) =>
      /\ res[r].status = 500
      /\ CountOp(calls[r], "user_profiles.update") = 1

\* The step in which the webhook handler of r gets the answer to its update.
WebhookUpdateStep(r) == pc[r] = "webhookUpdate" /\ pc'[r] = "done"

\* C8: when the store applies the update of a signature-verified
\* customer.subscription.updated or .deleted event, every row whose customer
\* id is the event's gets the event's status as subscription_status and keeps
\* its subscription_id, customer id and email, and every other row is
\* unchanged; when the store answers with an error no row changes.
C8_StatusEventFrame ==
  [][\A r \in Reqs :
       (WebhookUpdateStep(r) /\ StatusEvent(req[r].event)) =>
         /\ DOMAIN user_profiles' = DOMAIN user_profiles
         /\ \A u \in DOMAIN user_profiles :
              user_profiles'[u] =
                IF ~storeError'[r]
                   /\ user_profiles[u].stripe_customer_id = req[r].event.customer
                  THEN [user_profiles[u] EXCEPT
                          !.subscription_status = req[r].event.status]
                  ELSE user_profiles[u]]_vars

C8_Witness ==
  \E r \in Reqs :
    /\ req[r].route = "webhook"
    /\ req[r].event.type = "customer.subscription.deleted"
    /\ req[r].event.customer = 1
    /\ Done(r)
    /\ res[r].status = 200
    /\ ~storeError[r]
    /\ user_profiles["u2"] = Row("u2@mail", 1, Null, "canceled")
    /\ user_profiles["u1"] = InitialProfiles["u1"]

\* No row of the table has this customer id.
UnknownCustomer(c) ==
  \A u \in DOMAIN user_profiles : user_profiles[u].stripe_customer_id # c

\* The step in which the webhook handler of r answers.
WebhookAnswerStep(r) ==
  /\ pc[r] \in {"idle", "webhookUpdate"}
  /\ pc'[r] = "done"
  /\ req'[r].route = "webhook"

\* C9: a signature-verified webhook event whose customer id matches no row,
\* or whose type is not projected (another type, or checkout.session.completed
\* in a mode other than subscription), is answered 200 "received" and leaves
\* every row unchanged.
C9_NoOpAcknowledged ==
  [][\A r \in Reqs :
       (/\ WebhookAnswerStep(r)
        /\ ~InvalidSignature(req'[r], env)
        /\ \/ ~ProjectedEvent(req'[r].event)
           \/ UnknownCustomer(req'[r].event.customer)) =>
         /\ res'[r] = Response(200, "received")
         /\ user_profiles' = user_profiles]_vars

C9_Witness ==
  \E r \in Reqs :
    /\ req[r].route = "webhook"
    /\ req[r].event = Event("checkout.session.completed", "subscription", 2, "sub_B", Null)
    /\ ~InvalidSignature(req[r], env)
    /\ UnknownCustomer(2)
    /\ Done(r)
    /\ CountOp(calls[r], "user_profiles.update") = 1
    /\ res[r] = Response(200, "received")
    /\ user_profiles = InitialProfiles

\* The operations among the calls of sequence c.
OpsIn(c) == { c[i].op : i \in 1..Len(c) }

\* The step in which the portal handler of r gets its profile read answered.
PortalSelectStep(r) ==
  pc[r] = "select" /\ pc'[r] # "select" /\ req[r].route = "portal"

\* C10: create-portal-session for a principal whose row is missing or holds
\* no customer id answers 404 and asks for no portal session; a portal
\* session is asked for at most once, with the customer id table user_profiles
\* holds for the principal at the read, never the id of the request body; no
\* step of the handler writes the table.
C10_PortalUsesStoredCustomer ==
  [][\A r \in Reqs :
       req'[r].route = "portal" =>
         /\ PortalSelectStep(r) =>
              LET u == Principal(req[r]) IN
              IF u \notin DOMAIN user_profiles
                 \/ user_profiles[u].stripe_customer_id = NoCustomer
                THEN /\ pc'[r] = "done"
                     /\ res'[r].status = 404
                     /\ "stripe.billingPortal.sessions.create" \notin OpsIn(calls'[r])
                ELSE \/ /\ pc'[r] = "done"
                        /\ res'[r].status = 404
                        /\ "stripe.billingPortal.sessions.create" \notin OpsIn(calls'[r])
                     \/ /\ pc'[r] = "portalCreate"
                        /\ calls'[r] =
                             Append(calls[r],
                                    Call("stripe.billingPortal.sessions.create",
                                         user_profiles[u].stripe_customer_id))
         /\ ~PortalSelectStep(r) =>
              CountOp(calls'[r], "stripe.billingPortal.sessions.create")
                = CountOp(calls[r], "stripe.billingPortal.sessions.create")
         /\ pc'[r] # pc[r] => user_profiles' = user_profiles
         /\ "user_profiles.update" \notin OpsIn(calls'[r])]_vars

C10_Witness ==
  \E r \in Reqs :
    /\ req[r].route = "portal"
    /\ req[r].auth = <<"Bearer", "t2">>
    /\ req[r].customerId = 2
    /\ Done(r)
    /\ res[r] = Response(200, "url")
    /\ calls[r][Len(calls[r])] = Call("stripe.billingPortal.sessions.create", 1)
    /\ user_profiles = InitialProfiles

\* The customers the payments provider holds for user u.
CustomersOf(u) == { i \in 1..Len(customers) : customers[i] = u }

\* Request r is an answered, successful create-checkout-session of user u.
CheckoutOk(r, u) ==
  /\ req[r].route = "checkout"
  /\ req[r].userId = u
  /\ Done(r)
  /\ res[r].status = 200

\* C3: when a user whose row held no customer id has called
\* create-checkout-session twice, the second call after the first was
\* answered and both answered 200, the provider holds exactly one customer of
\* the user, the row stores its id, and the second call created no customer
\* and asked for its checkout session with the stored id.
C3_CustomerCreatedOnce ==
  \A u \in DOMAIN InitialProfiles : \A r1, r2 \in Reqs :
    (/\ InitialProfiles[u].stripe_customer_id = NoCustomer
     /\ r1 \in after[r2]
     /\ CheckoutOk(r1, u)
     /\ CheckoutOk(r2, u)
     /\ \A p \in Reqs \ {r1, r2} : ~(req[p].route = "checkout" /\ req[p].userId = u)) =>
      /\ Cardinality(CustomersOf(u)) = 1
      /\ user_profiles[u].stripe_customer_id \in CustomersOf(u)
      /\ "stripe.customers.create" \notin Ops(r2)
      /\ calls[r2][Len(calls[r2])] =
           Call("stripe.checkout.sessions.create", user_profiles[u].stripe_customer_id)

\* C4: in every interleaving, once a row holds a customer id, no step clears
\* it or replaces it by another id (so the field is written at most once).
C4_CustomerIdWrittenOnce ==
  [][\A u \in DOMAIN user_profiles :
       user_profiles[u].stripe_customer_id # NoCustomer =>
         user_profiles'[u].stripe_customer_id = user_profiles[u].stripe_customer_id]_vars

\* The JSON value a text denotes: its member's key and its number as
\* written (whitespace apart); <<>> when the text is not JSON.
JsonValue(text) ==
  IF Lex(text) = <<>> THEN <<>>
  ELSE << [key |-> Lex(text)[1].key, num |-> Lex(text)[1].num] >>

\* Request r is an answered analytics-proxy request of an authenticated user.
MmmAnswered(r) ==
  /\ req[r].route = "mmm"
  /\ ~BadCredential(req[r])
  /\ Done(r)

\* The upstream endpoint answered request r with a JSON body.
UpstreamJson(r) ==
  mmmResponse[r] # NoResponse /\ JsonValue(mmmResponse[r].body) # <<>>

\* The status part of C11: the relay's status is the upstream's whenever the
\* upstream answered with a JSON body.
C11_StatusPassedThrough ==
  \A r \in Reqs :
    (MmmAnswered(r) /\ UpstreamJson(r)) => res[r].status = mmmResponse[r].status

\* The envelope part of C11: the generic 500 envelope is sent only when the
\* upstream call failed, its body was not JSON, or the server-held key is unset.
C11_EnvelopeOnlyOnFailure ==
  \A r \in Reqs :
    (MmmAnswered(r) /\ res[r].status = 500
       /\ res[r].body \in { ProxyFailure.body,
                            "MMM API key is not configured on the server." }) =>
      \/ mmmResponse[r] = NoResponse
      \/ JsonValue(mmmResponse[r].body) = <<>>
      \/ "MMM_API_KEY" \notin env

\* C11: an authenticated analytics-proxy request whose upstream answered
\* with a status and a JSON body is answered with that status and a body that
\* is the same JSON value, and the generic 500 envelope is sent only when the
\* upstream call failed, its body was not JSON, or the server-held key is unset.
C11_TransparentRelay ==
  /\ C11_StatusPassedThrough
  /\ C11_EnvelopeOnlyOnFailure
  /\ \A r \in Reqs :
       (MmmAnswered(r) /\ UpstreamJson(r)) =>
         JsonValue(res[r].body) = JsonValue(mmmResponse[r].body)

====
